---- MODULE Spec2Model ----
(***************************************************************************)
(* Model of src/testcase.js: a k6 WebSocket load script.                   *)
(*                                                                         *)
(*   LogTime      the latency recorder (start / end / duration)            *)
(*   initialize   the scenario catalog, selected by __ENV.SCENE            *)
(*   main         the entry point: computes the start delay, arms a timer  *)
(*   Performant   one WebSocket session: connect, onConnect and the four   *)
(*                handlers (open, close, message, error)                   *)
(*                                                                         *)
(* Four specifications are given:                                          *)
(*   SpecRecorder  a LogTime instance driven by arbitrary start()/end()    *)
(*                 calls of a client                                       *)
(*   SpecLoad      script load and the entry point under every scene       *)
(*                 identifier, against a server that refuses the handshake *)
(*   Spec          a run with SCENE=constant: entry point, timers,         *)
(*                 sessions and the transport's signals                    *)
(*   SpecFair      Spec with fair delivery of timers and signals           *)
(***************************************************************************)
EXTENDS Integers, Sequences, FiniteSets, Bags, TLC

VARIABLES
    scene,        \* PerfEnvironment.scene  (__ENV.SCENE)
    options,      \* the descriptor returned by options()
    phase,        \* "load" -> "init" (options resolved) -> "run" (setup done)
    now,          \* the latest instant Date.now() has returned
    console,      \* bag of console.log / console.info records (the fields that
                  \* come from the program's state; the timestamp text is not kept)
    checks,       \* bag of check() results
    iterations,   \* per VU: exec.vu.iterationInScenario of its next iteration
    sessions,     \* per entry-point invocation: timer, Performant, socket
    trendSink,    \* per session: values passed to Trend('api_name').add
    gaugeSink,    \* per session: values passed to Gauge('gaugeRtt').add
    counterSink,  \* per session: values passed to Counter('api_name').add
    rec,          \* SpecRecorder: the LogTime instance under test
    recSink,      \* SpecRecorder: values passed to its trend.add
    recCalls      \* SpecRecorder: the calls made so far, each with the instant it
                  \* was made at, its result and the values it gave to trend.add

vars == <<scene, options, phase, now, console, checks, iterations, sessions,
          trendSink, gaugeSink, counterSink, rec, recSink, recCalls>>

runVars == <<scene, options, phase, console, checks, iterations, sessions,
             trendSink, gaugeSink, counterSink>>

recVars == <<rec, recSink, recCalls>>

----------------------------------------------------------------------------
(* Bounds *)

MaxClock    == 2   \* in a run, Date.now() returns instants in 1..MaxClock
MaxRecClock == 3   \* for the recorder under test, instants in 1..MaxRecClock
MaxCalls    == 4   \* calls made on the recorder under test
MaxVU       == 3   \* exec.vu.idInTest ranges over 1..MaxVU
MaxSessions == 2   \* entry-point invocations in a run
MaxSignals  == 2   \* message and error signals delivered in a run

VUs        == 1..MaxVU
SessionIds == 1..MaxSessions

----------------------------------------------------------------------------
(* JavaScript values.  A number, undefined and NaN are kept apart so that  *)
(* arithmetic on a field that was never assigned gives NaN as it does in   *)
(* the script.                                                             *)

Undefined == [type |-> "undefined"]
NaN       == [type |-> "NaN"]
Num(n)    == [type |-> "number", value |-> n]

IsNum(v) == v.type = "number"

\* a - b
Minus(a, b) == IF IsNum(a) /\ IsNum(b) THEN Num(a.value - b.value) ELSE NaN

\* !v
Not(v) == \/ v = Undefined
          \/ v = NaN
          \/ (IsNum(v) /\ v.value = 0)

----------------------------------------------------------------------------
(* LogTime (lines 11-32) *)

\* constructor: neither startTime nor endedTime is assigned
LogTime_new == [name |-> "api_name", startTime |-> Undefined, endedTime |-> Undefined]

duration_swapped(t) ==
    IF Not(t.endedTime) THEN Num(-1) ELSE Minus(t.startTime, t.endedTime)

\* get duration()
duration(t) ==
    IF Not(t.endedTime) THEN Num(-1) ELSE Minus(t.endedTime, t.startTime)

\* start()
start(t, time) == [t EXCEPT !.startTime = Num(time)]

\* end(): the instance after the call; the value given to trend.add and
\* returned is duration(end(t, time))
end(t, time) == [t EXCEPT !.endedTime = Num(time)]

----------------------------------------------------------------------------
(* The clock *)

\* Date.now() returns t: an instant not before the one it returned last
Date_now(t) ==
    /\ t >= now
    /\ now' = t

----------------------------------------------------------------------------
(* A client of LogTime: any sequence of start() and end() calls *)

RecStart ==
    /\ Len(recCalls) < MaxCalls
    /\ \E t \in 1..MaxRecClock :
           /\ Date_now(t)
           /\ rec' = start(rec, t)
           /\ recCalls' = Append(recCalls,
                  [op |-> "start", at |-> t, ret |-> Undefined, added |-> <<>>])
    /\ UNCHANGED <<recSink, runVars>>

RecEnd ==
    /\ Len(recCalls) < MaxCalls
    /\ \E t \in 1..MaxRecClock :
           /\ Date_now(t)
           /\ rec' = end(rec, t)
           /\ recSink' = Append(recSink, duration(rec'))
           /\ recCalls' = Append(recCalls,
                  [op |-> "end", at |-> t, ret |-> duration(rec'),
                   added |-> <<duration(rec')>>])
    /\ UNCHANGED runVars

----------------------------------------------------------------------------
(* The scenario catalog (lines 100-213) *)

Str(s) == [type |-> "string", value |-> s]

\* PerfEnvironment.duration = __ENV.DURATION || '1m', with DURATION not set
PerfEnvironment_duration == "1m"

Stage(d, t) == [duration |-> d, target |-> t]

iterations_testing ==
    [scenarios |->
        [iterations |-> [executor |-> "shared-iterations", vus |-> 1,
                         iterations |-> 1, maxDuration |-> "10m"],
         monitor    |-> [executor |-> "constant-arrival-rate", preAllocatedVUs |-> 1,
                         timeUnit |-> "1s", rate |-> 1, duration |-> "1m10s",
                         exec |-> "monitor"]]]

ramping_arrival_rate_testing ==
    [scenarios |->
        [stress |-> [executor |-> "ramping-arrival-rate", preAllocatedVUs |-> 2,
                     maxVUs |-> 2, startRate |-> 1, timeUnit |-> "1s",
                     stages |-> <<Stage("30s", 0), Stage("5m", 10), Stage("5m", 50),
                                  Stage("10m", 100), Stage("30s", 0)>>]]]

stress_testing_options ==
    [stages |-> <<Stage("10s", 10), Stage("10s", 10), Stage("10s", 50), Stage("10s", 0)>>]

constant_testing ==
    [thresholds |-> [gaugeRtt |-> <<"value<100">>],
     scenarios |->
        [constant |-> [executor |-> "constant-vus", vus |-> 2,
                       duration |-> PerfEnvironment_duration,
                       tags |-> [type |-> "game"]]]]

breakpoint_testing ==
    [scenarios |->
        [breakpoint |-> [executor |-> "ramping-arrival-rate",
                         stages |-> <<Stage("10m", 20000)>>]]]

\* initialize(scene): a chain of == comparisons against string literals;
\* undefined == "..." is false
initialize(sc) ==
    IF sc = Str("iterations") THEN iterations_testing
    ELSE IF sc = Str("ramping_arrival_rate_testing") THEN ramping_arrival_rate_testing
    ELSE IF sc = Str("stress") THEN stress_testing_options
    ELSE IF sc = Str("breakpoint") THEN breakpoint_testing
    ELSE constant_testing

\* The five names of the catalog
CanonicalScenes ==
    {Str("iterations"), Str("ramping_arrival_rate"), Str("stress"),
     Str("constant"), Str("breakpoint")}

\* Values of __ENV.SCENE: the canonical names, the name the script compares
\* against, a name in another case, an unknown name, the empty string and
\* no value
SceneIds ==
    CanonicalScenes \cup
    {Str("ramping_arrival_rate_testing"), Str("Constant"), Str("soak"), Str(""),
     Undefined}

\* export const options = () => initialize(PerfEnvironment.scene)
options_call ==
    /\ phase = "load"
    /\ options' = initialize(scene)
    /\ phase' = "init"
    /\ UNCHANGED <<scene, now, console, checks, iterations, sessions,
                   trendSink, gaugeSink, counterSink, recVars>>

\* export function setup()
setup ==
    /\ phase = "init"
    /\ console' = console (+) SetToBag({[kind |-> "setup"]})
    /\ phase' = "run"
    /\ UNCHANGED <<scene, options, now, checks, iterations, sessions,
                   trendSink, gaugeSink, counterSink, recVars>>

----------------------------------------------------------------------------
(* The entry point (lines 220-231) *)

\* Math.floor, on the integers exec.vu supplies
Math_floor(n) == n

per_stage_clients_flipped(idInTest, iterationInScenario) ==
    IF iterationInScenario # 0 THEN idInTest ELSE iterationInScenario

per_stage_clients_ordinal(idInTest, iterationInScenario) == idInTest

\* exec.vu.iterationInScenario == 0 ? exec.vu.idInTest : exec.vu.iterationInScenario
per_stage_clients(idInTest, iterationInScenario) ==
    IF iterationInScenario = 0 THEN idInTest ELSE iterationInScenario

per_stage_duration == 1000

\* const timeout = Math.floor(per_stage_clients) * per_stage_duration
timeout(idInTest, iterationInScenario) ==
    Math_floor(per_stage_clients(idInTest, iterationInScenario)) * per_stage_duration

\* A session slot before the entry point has been invoked for it
IdleSession ==
    [pc |-> "idle", vu |-> 0, iter |-> 0, timeout |-> 0, connects |-> 0,
     res |-> Undefined, trend |-> Undefined, sent |-> <<>>,
     delivered |-> EmptyBag, late |-> EmptyBag]

Invoked == {s \in SessionIds : sessions[s].pc # "idle"}

\* The host runs one iteration of a VU at a time, and an iteration lasts until
\* the VU's event loop is empty: the timer armed by main() has fired and
\* connect() has returned
BetweenIterations(vu) ==
    \A s \in Invoked : sessions[s].vu = vu => sessions[s].pc \in {"closed", "failed"}

main_connects_inline(vu) ==
    /\ phase = "run"
    /\ BetweenIterations(vu)
    /\ Cardinality(Invoked) < MaxSessions
    /\ LET s  == Cardinality(Invoked) + 1
           it == iterations[vu]
           t  == timeout(vu, it)
       IN /\ sessions' = [sessions EXCEPT ![s] =
                 [IdleSession EXCEPT !.pc = "registered", !.vu = vu, !.iter = it,
                                     !.timeout = t, !.connects = 1,
                                     !.trend = LogTime_new]]
          /\ console' = console (+) SetToBag({[kind |-> "START TIME", vu |-> vu,
                            timeout |-> t, idInTest |-> vu, iterationInScenario |-> it]})
          /\ iterations' = [iterations EXCEPT ![vu] = it + 1]
    /\ UNCHANGED <<scene, options, phase, now, checks,
                   trendSink, gaugeSink, counterSink, recVars>>

\* main(), run by VU vu as its next iteration: computes the delay, logs it
\* and arms the timer; nothing else happens in the entry point
main(vu) ==
    /\ phase = "run"
    /\ BetweenIterations(vu)
    /\ Cardinality(Invoked) < MaxSessions
    /\ LET s  == Cardinality(Invoked) + 1
           it == iterations[vu]
           t  == timeout(vu, it)
       IN /\ sessions' = [sessions EXCEPT ![s] =
                 [IdleSession EXCEPT !.pc = "armed", !.vu = vu, !.iter = it,
                                     !.timeout = t]]
          /\ console' = console (+) SetToBag({[kind |-> "START TIME", vu |-> vu,
                            timeout |-> t, idInTest |-> vu, iterationInScenario |-> it]})
          /\ iterations' = [iterations EXCEPT ![vu] = it + 1]
    /\ UNCHANGED <<scene, options, phase, now, checks,
                   trendSink, gaugeSink, counterSink, recVars>>

----------------------------------------------------------------------------
(* Performant (lines 36-97) and the transport that drives it *)

ProbeId      == "onTestcase1"
BenignError  == "websocket: close sent"

\* Payloads and error causes the transport may deliver
Payloads == {ProbeId, "onTestcase2"}
Causes   == {BenignError, "websocket: close 1006 (abnormal closure)"}

\* Handshake results ws.connect may return: 101 on success, another status when
\* the server refuses the upgrade
HandshakeStatuses == {101, 403}

Response(st) == [type |-> "object", status |-> st]

Connected_successfully_any(r) == r # Undefined

\* check(this.res, { 'Connected successfully': (r) => r && r.status === 101 })
Connected_successfully(r) == r # Undefined /\ r.status = 101

check(r) == [name |-> "Connected successfully", pass |-> Connected_successfully(r)]

Signal(t, d) == [type |-> t, data |-> d]

\* The transport hands signal g to a handler of the session: delivered is
\* the bag of the signals handed over so far, late the bag of those handed
\* over after the close signal
Deliver(session, g) ==
    [session EXCEPT
        !.delivered = @ (+) SetToBag({g}),
        !.late = IF session.pc = "sleeping" THEN @ (+) SetToBag({g}) ELSE @]

\* The number of signals in bag B whose type is in T
CountTypes(B, T) ==
    LET RECURSIVE Sum(_)
        Sum(S) == IF S = {} THEN 0
                  ELSE LET g == CHOOSE x \in S : TRUE
                       IN CopiesIn(g, B) + Sum(S \ {g})
    IN Sum({g \in BagToSet(B) : g.type \in T})

\* The number of message and error signals delivered so far, over all sessions
Traffic ==
    LET RECURSIVE Sum(_)
        Sum(S) == IF S = {} THEN 0
                  ELSE LET s == CHOOSE x \in S : TRUE
                       IN CountTypes(sessions[s].delivered, {"message", "error"})
                          + Sum(S \ {s})
    IN Sum(SessionIds)

defer_retry(s, st) ==
    /\ sessions[s].pc = "armed"
    /\ IF st = 101
       THEN /\ sessions' = [sessions EXCEPT ![s].pc = "registered",
                                            ![s].connects = @ + 1,
                                            ![s].trend = LogTime_new]
            /\ UNCHANGED checks
       ELSE /\ sessions' = [sessions EXCEPT ![s].connects = @ + 1,
                                            ![s].res = Response(st)]
            /\ checks' = checks (+) SetToBag({check(Response(st))})
    /\ UNCHANGED <<scene, options, phase, now, console, iterations,
                   trendSink, gaugeSink, counterSink, recVars>>

\* The timer armed by main() fires: defer() constructs a Performant and calls
\* connect().  ws.connect performs the handshake.  When it fails, the callback
\* is never run, ws.connect returns the response and check() records it.
\* When it succeeds, the callback runs onConnect(socket), which constructs the
\* gauge, the recorder and the counter and registers the four handlers, and
\* then resolve(); ws.connect goes on to run the socket's event loop.
\* connects counts the calls of ws.connect made for the session.
defer(s, st) ==
    /\ sessions[s].pc = "armed"
    /\ IF st = 101
       THEN /\ sessions' = [sessions EXCEPT ![s].pc = "registered",
                                            ![s].connects = @ + 1,
                                            ![s].trend = LogTime_new]
            /\ UNCHANGED checks
       ELSE /\ sessions' = [sessions EXCEPT ![s].pc = "failed",
                                            ![s].connects = @ + 1,
                                            ![s].res = Response(st)]
            /\ checks' = checks (+) SetToBag({check(Response(st))})
    /\ UNCHANGED <<scene, options, phase, now, console, iterations,
                   trendSink, gaugeSink, counterSink, recVars>>

socket_send_twice(sent, data) == Append(Append(sent, data), data)

\* socket.send(data): the payloads the session has put on its connection
socket_send(sent, data) == Append(sent, data)

\* socket.on('open', ...)
on_open(s) ==
    /\ sessions[s].pc = "registered"
    /\ console' = console (+) SetToBag({[kind |-> "connected", vu |-> sessions[s].vu]})
    /\ sessions' = [sessions EXCEPT
           ![s] = [Deliver(@, Signal("open", "")) EXCEPT
                      !.pc = "open",
                      !.sent = socket_send(@, ProbeId)]]
    /\ UNCHANGED <<scene, options, phase, now, checks, iterations,
                   trendSink, gaugeSink, counterSink, recVars>>

on_message_unfiltered(message) == TRUE

\* if (message === 'onTestcase1')
on_message_matches(message) == message = ProbeId

\* socket.on('message', ...).  The handler is registered on the socket and
\* runs for every message the socket's event loop hands over: while the
\* connection is open, and also for a message the transport had already read
\* when the close signal was handled, as long as ws.connect has not returned.
on_message(s, message) ==
    /\ sessions[s].pc \in {"open", "sleeping"}
    /\ Traffic < MaxSignals
    /\ console' = console (+)
           SetToBag({[kind |-> "message", vu |-> sessions[s].vu,
                      bytes |-> Len(message) * 2, message |-> message]})
    /\ IF on_message_matches(message)
       THEN \E t \in 1..MaxClock :
               LET trend == end(sessions[s].trend, t)
                   rtt   == duration(trend)
               IN /\ Date_now(t)
                  /\ sessions' = [sessions EXCEPT
                         ![s] = [Deliver(@, Signal("message", message)) EXCEPT
                                    !.trend = trend]]
                  /\ trendSink' = [trendSink EXCEPT ![s] = Append(@, rtt)]
                  /\ gaugeSink' = [gaugeSink EXCEPT ![s] = Append(@, rtt)]
                  /\ counterSink' = [counterSink EXCEPT ![s] = Append(@, 1)]
       ELSE /\ sessions' = [sessions EXCEPT
                      ![s] = Deliver(@, Signal("message", message))]
            /\ UNCHANGED <<now, trendSink, gaugeSink, counterSink>>
    /\ UNCHANGED <<scene, options, phase, checks, iterations, recVars>>

on_error_reports_all(cause) == TRUE

\* if (e.error() != 'websocket: close sent')
on_error_reports(cause) == cause # BenignError

\* socket.on('error', ...).  The transport raises its error signals, the one
\* for a close it could not send included, before the close signal.
on_error(s, cause) ==
    /\ sessions[s].pc = "open"
    /\ Traffic < MaxSignals
    /\ sessions' = [sessions EXCEPT ![s] = Deliver(@, Signal("error", cause))]
    /\ IF on_error_reports(cause)
       THEN console' = console (+)
                SetToBag({[kind |-> "error", vu |-> sessions[s].vu, cause |-> cause]})
       ELSE UNCHANGED console
    /\ UNCHANGED <<scene, options, phase, now, checks, iterations,
                   trendSink, gaugeSink, counterSink, recVars>>

on_close_all(s) ==
    /\ sessions[s].pc = "open"
    /\ console' = console (+) SetToBag({[kind |-> "disconnected", vu |-> sessions[s].vu]})
    /\ sessions' = [p \in SessionIds |->
           IF sessions[p].pc = "open"
           THEN [Deliver(sessions[p], Signal("close", "")) EXCEPT !.pc = "sleeping"]
           ELSE sessions[p]]
    /\ UNCHANGED <<scene, options, phase, now, checks, iterations,
                   trendSink, gaugeSink, counterSink, recVars>>

\* socket.on('close', ...): logs, then sleep(1) blocks this VU
on_close(s) ==
    /\ sessions[s].pc = "open"
    /\ console' = console (+) SetToBag({[kind |-> "disconnected", vu |-> sessions[s].vu]})
    /\ sessions' = [sessions EXCEPT
           ![s] = [Deliver(@, Signal("close", "")) EXCEPT !.pc = "sleeping"]]
    /\ UNCHANGED <<scene, options, phase, now, checks, iterations,
                   trendSink, gaugeSink, counterSink, recVars>>

connect_never_returns(s) ==
    /\ sessions[s].pc = "sleeping"
    /\ UNCHANGED vars

\* sleep(1) is over and the close handler returns: the socket's event loop
\* ends, ws.connect returns the response of the successful handshake, which
\* connect() stores in this.res and gives to check()
connect_returns(s) ==
    /\ sessions[s].pc = "sleeping"
    /\ sessions' = [sessions EXCEPT ![s].pc = "closed", ![s].res = Response(101)]
    /\ checks' = checks (+) SetToBag({check(Response(101))})
    /\ UNCHANGED <<scene, options, phase, now, console, iterations,
                   trendSink, gaugeSink, counterSink, recVars>>

----------------------------------------------------------------------------
(* Specifications *)

InitRun ==
    /\ options = Undefined
    /\ phase = "load"
    /\ now = 1
    /\ console = EmptyBag
    /\ checks = EmptyBag
    /\ iterations = [v \in VUs |-> 0]
    /\ sessions = [s \in SessionIds |-> IdleSession]
    /\ trendSink = [s \in SessionIds |-> <<>>]
    /\ gaugeSink = [s \in SessionIds |-> <<>>]
    /\ counterSink = [s \in SessionIds |-> <<>>]

InitRec ==
    /\ rec = LogTime_new
    /\ recSink = <<>>
    /\ recCalls = <<>>

\* The VUs of the scenario constant: 1..vus
ConstantVUs == 1..constant_testing.scenarios.constant.vus

\* A run with SCENE=constant
Init == scene = Str("constant") /\ InitRun /\ InitRec

Next ==
    \/ options_call
    \/ setup
    \/ \E vu \in ConstantVUs : main(vu)
    \/ \E s \in SessionIds, st \in HandshakeStatuses : defer(s, st)
    \/ \E s \in SessionIds : on_open(s)
    \/ \E s \in SessionIds, m \in Payloads : on_message(s, m)
    \/ \E s \in SessionIds, c \in Causes : on_error(s, c)
    \/ \E s \in SessionIds : on_close(s)
    \/ \E s \in SessionIds : connect_returns(s)

Spec == Init /\ [][Next]_vars

\* Fair delivery of timers and transport signals: an armed timer fires, a
\* connected socket gets its open signal, an open connection is closed in the
\* end (by the server, or by the host when the run duration is over), and
\* sleep(1) returns
Fairness ==
    \A s \in SessionIds :
        /\ WF_vars(\E st \in HandshakeStatuses : defer(s, st))
        /\ WF_vars(on_open(s))
        /\ WF_vars(on_close(s))
        /\ WF_vars(connect_returns(s))

SpecFair == Init /\ [][Next]_vars /\ Fairness

\* Script load and the entry point under every scene identifier, against a
\* server that refuses every handshake
InitLoad == scene \in SceneIds /\ InitRun /\ InitRec

NextLoad ==
    \/ options_call
    \/ setup
    \/ \E vu \in VUs : main(vu)
    \/ \E s \in SessionIds, st \in HandshakeStatuses \ {101} : defer(s, st)

SpecLoad == InitLoad /\ [][NextLoad]_vars

\* A LogTime instance and its client
InitRecorder == scene = Undefined /\ InitRun /\ InitRec

NextRecorder ==
    \/ RecStart
    \/ RecEnd

SpecRecorder == InitRecorder /\ [][NextRecorder]_vars

----------------------------------------------------------------------------
(* Properties of the start delay (checked under SpecLoad) *)

Max(a, b) == IF a >= b THEN a ELSE b

\* C1, as stated: for every armed timer the delay is
\* max(ordinal, iteration) * 1000 and is >= 0.
C1_DelayIsMaxOfOrdinalAndIteration ==
    \A s \in Invoked :
        /\ sessions[s].timeout = Max(sessions[s].vu, sessions[s].iter) * 1000
        /\ sessions[s].timeout >= 0

\* C1, amended: the delay is >= 0 and never above max(ordinal, iteration) * 1000;
\* it equals max(ordinal, iteration) * 1000 when iteration = 0 or
\* iteration >= ordinal, and is iteration * 1000 otherwise.
C1_DelayIsMaxWhenIterationLeads ==
    \A s \in Invoked :
        LET o == sessions[s].vu
            i == sessions[s].iter
            d == sessions[s].timeout
        IN /\ d >= 0
           /\ d <= Max(o, i) * 1000
           /\ (i = 0 \/ i >= o) => d = Max(o, i) * 1000
           /\ (i # 0 /\ i < o) => d = i * 1000

\* C1, witness: a timer armed in iteration 1 of VU 1 (iteration >= ordinal) and
\* one armed in iteration 0
C1_Witness ==
    /\ \E s \in Invoked : sessions[s].iter # 0 /\ sessions[s].iter >= sessions[s].vu
                          /\ sessions[s].timeout = 1000
    /\ \E s \in Invoked : sessions[s].iter = 0

\* C2: for every armed timer the delay is batchIndex * 1000, where batchIndex
\* is the iteration index when it is not 0 and the worker ordinal when it is;
\* timers armed with the same batchIndex carry the same delay.
C2_DelayIsBatchIndexTimes1000 ==
    LET batchIndex(s) == IF sessions[s].iter # 0 THEN sessions[s].iter ELSE sessions[s].vu
    IN /\ \A s \in Invoked : sessions[s].timeout = batchIndex(s) * 1000
       /\ \A s1, s2 \in Invoked :
              batchIndex(s1) = batchIndex(s2) => sessions[s1].timeout = sessions[s2].timeout
       /\ \A s \in Invoked :
              CopiesIn([kind |-> "START TIME", vu |-> sessions[s].vu,
                        timeout |-> batchIndex(s) * 1000, idInTest |-> sessions[s].vu,
                        iterationInScenario |-> sessions[s].iter], console) = 1

\* C2, witness: VU 2 has armed the timer of its iteration 1, whose delay comes
\* from the iteration index and not from the ordinal
C2_Witness ==
    \E s \in Invoked : /\ sessions[s].vu = 2
                       /\ sessions[s].iter = 1
                       /\ sessions[s].pc = "armed"
                       /\ sessions[s].timeout = 1000

----------------------------------------------------------------------------
(* Properties of the scenario catalog (checked under SpecLoad) *)

\* C3, as stated: each of the five canonical identifiers resolves to its own
\* descriptor, different from the one every other canonical identifier
\* resolves to, and ramping_arrival_rate resolves to the ramping-arrival-rate
\* descriptor.
C3_CanonicalScenesResolveToOwnDescriptor ==
    (phase # "load" /\ scene \in CanonicalScenes) =>
        /\ \A other \in CanonicalScenes \ {scene} : options # initialize(other)
        /\ scene = Str("ramping_arrival_rate") =>
               /\ options = ramping_arrival_rate_testing
               /\ options # constant_testing

\* C4, as stated: resolution returns a descriptor for every identifier, and for
\* every identifier that is not one of the five canonical names it returns the
\* descriptor of the identifier constant.
C4_UnrecognizedScenesResolveToConstant ==
    phase # "load" =>
        /\ options # Undefined
        /\ scene \notin CanonicalScenes => options = initialize(Str("constant"))

----------------------------------------------------------------------------
(* Properties of LogTime (checked under SpecRecorder) *)

Starts(k) == {j \in 1..k : recCalls[j].op = "start"}

LastStart(k) == CHOOSE j \in Starts(k) : \A h \in Starts(k) : h <= j

\* C5, as stated: an end() made while start() was never called returns -1 and
\* gives no sample to the sink.
C5_EndWithoutStartReturnsSentinel ==
    \A k \in 1..Len(recCalls) :
        (recCalls[k].op = "end" /\ Starts(k) = {}) =>
            /\ recCalls[k].ret = Num(-1)
            /\ recCalls[k].added = <<>>

\* C6, as stated: once start() has been called, an end() that directly follows
\* an end() gives no sample to the sink, and the number of samples given by
\* end() calls made after a start() never exceeds the number of start() calls
\* (an end() before any start() is the case of C5).
C6_SamplesNeverExceedStarts ==
    /\ \A k \in 2..Len(recCalls) :
           (recCalls[k].op = "end" /\ recCalls[k - 1].op = "end" /\ Starts(k) # {}) =>
               recCalls[k].added = <<>>
    /\ Cardinality({k \in 1..Len(recCalls) :
                        /\ recCalls[k].op = "end"
                        /\ Starts(k) # {}
                        /\ recCalls[k].added # <<>>})
           <= Cardinality(Starts(Len(recCalls)))

\* C7: an end() made at T1 after one or more start() calls, the last at T0,
\* returns T1 - T0 and gives exactly that value to the sink.
C7_DurationIsEndMinusLastStart ==
    \A k \in 1..Len(recCalls) :
        (recCalls[k].op = "end" /\ Starts(k) # {}) =>
            LET T0 == recCalls[LastStart(k)].at
                T1 == recCalls[k].at
            IN /\ recCalls[k].ret = Num(T1 - T0)
               /\ recCalls[k].added = <<Num(T1 - T0)>>

\* C7, witness: start() twice at different instants, then end() at a later
\* instant; the sample is measured from the second start()
C7_Witness ==
    /\ Len(recCalls) = 3
    /\ recCalls[1].op = "start" /\ recCalls[2].op = "start" /\ recCalls[3].op = "end"
    /\ recCalls[1].at < recCalls[2].at /\ recCalls[2].at < recCalls[3].at
    /\ recSink = <<Num(recCalls[3].at - recCalls[2].at)>>

----------------------------------------------------------------------------
(* Properties of the session handlers (checked under Spec) *)

\* The signals of type t with data d delivered to session s, numbered from 1
Delivered(s, t, d) == 1..CopiesIn(Signal(t, d), sessions[s].delivered)

\* The message signals delivered to session s, numbered from 1
Messages(s) == 1..CountTypes(sessions[s].delivered, {"message"})

\* C8: a session to which exactly one message equal to the probe identifier has
\* been delivered has made exactly one counter increment, by 1, and exactly
\* one gauge update, whatever other messages came before or after it.
C8_OneMatchOneIncrementOneGauge ==
    \A s \in SessionIds :
        Cardinality(Delivered(s, "message", ProbeId)) = 1 =>
            /\ counterSink[s] = <<1>>
            /\ Len(gaugeSink[s]) = 1

\* C8, witness: a session has received one matching and one non-matching
\* message and has made its one increment
C8_Witness ==
    \E s \in SessionIds :
        /\ Cardinality(Delivered(s, "message", ProbeId)) = 1
        /\ Cardinality(Messages(s)) = 2
        /\ counterSink[s] = <<1>>

ErrorLog(v, c) == [kind |-> "error", vu |-> v, cause |-> c]

\* The error signals of cause c delivered to the sessions of VU v
ErrorsDelivered(v, c) ==
    {p \in SessionIds \X (1..(MaxSignals + 2)) :
        /\ sessions[p[1]].vu = v
        /\ p[2] \in Delivered(p[1], "error", c)}

\* C9: the console holds no error report for the benign cause, and for every
\* other cause exactly one report, carrying the VU, per error signal delivered
\* to a session of that VU.
C9_ErrorReportedUnlessBenign ==
    /\ \A v \in VUs, c \in Causes :
           CopiesIn(ErrorLog(v, c), console) =
               IF c = BenignError THEN 0 ELSE Cardinality(ErrorsDelivered(v, c))
    /\ \A r \in BagToSet(console) :
           r.kind = "error" => r.vu \in VUs /\ r.cause \in Causes \ {BenignError}

\* C9, witness: a session has received the benign error and another error, and
\* the console holds one error report, of its VU
C9_Witness ==
    \E s \in SessionIds :
        /\ Delivered(s, "error", BenignError) # {}
        /\ \E c \in Causes \ {BenignError} :
               /\ Delivered(s, "error", c) # {}
               /\ CopiesIn(ErrorLog(sessions[s].vu, c), console) = 1
        /\ Cardinality({r \in BagToSet(console) : r.kind = "error"}) = 1

\* C10, as stated: a session sends one probe and gives at most one latency
\* sample to the sink, however many messages equal to the probe identifier are
\* delivered to it.
C10_AtMostOneSamplePerSession ==
    \A s \in SessionIds :
        /\ Len(sessions[s].sent) <= 1
        /\ Len(trendSink[s]) <= 1

----------------------------------------------------------------------------
(* Properties of the session life cycle (checked under Spec and SpecFair) *)

Opens(s) == Delivered(s, "open", "")

\* C11: in every session the payloads sent are one probe identifier per open
\* signal received, at most one: nothing is sent before open, and no message,
\* error or close signal adds a send.
C11_ProbeSentOncePerOpen ==
    \A s \in SessionIds :
        /\ Len(sessions[s].sent) = Cardinality(Opens(s))
        /\ Len(sessions[s].sent) <= 1
        /\ \A k \in 1..Len(sessions[s].sent) : sessions[s].sent[k] = ProbeId
        /\ sessions[s].pc \in {"idle", "armed", "registered", "failed"} =>
               sessions[s].sent = <<>>

\* C11, witness: a session has received open, a message, an error and close,
\* and has sent its one probe
C11_Witness ==
    \E s \in SessionIds :
        /\ BagCardinality(sessions[s].delivered) = 4
        /\ Messages(s) # {}
        /\ \E c \in Causes : Delivered(s, "error", c) # {}
        /\ Delivered(s, "close", "") # {}
        /\ sessions[s].sent = <<ProbeId>>

Terminal == {"closed", "failed"}

\* C12 (under SpecFair): every session whose timer has been armed eventually
\* reaches the closed or the failed state.
C12_StartedSessionTerminates ==
    \A s \in SessionIds :
        (sessions[s].pc = "armed") ~> (sessions[s].pc \in Terminal)

\* C12, witness: the sessions of the two VUs have both run and ended, one of
\* them through open, a message and close
C12_Witness ==
    /\ \A s \in SessionIds : sessions[s].pc \in Terminal
    /\ \A v \in ConstantVUs : \E s \in SessionIds : sessions[s].vu = v
    /\ \E s \in SessionIds : sessions[s].pc = "closed" /\ Messages(s) # {}

\* C13, as stated: whenever end() has been invoked on a session's recorder,
\* start() was invoked on it before, and every value given to the gauge is a
\* measured elapsed time: a number that is not negative.
C13_EndPrecededByStart ==
    \A s \in SessionIds :
        /\ sessions[s].trend # Undefined =>
               (sessions[s].trend.endedTime # Undefined =>
                    sessions[s].trend.startTime # Undefined)
        /\ \A k \in 1..Len(gaugeSink[s]) :
               IsNum(gaugeSink[s][k]) /\ gaugeSink[s][k].value >= 0

\* The session holds a connection that ws.connect has not given back yet
LiveHandle(s) == sessions[s].pc \in {"registered", "open", "sleeping"}

\* C14, as stated: a session to which an error signal has been delivered is
\* in the failed state and holds no connection any more, whether or not a
\* close signal has followed.
C14_ErrorEndsSession ==
    \A s \in SessionIds :
        (\E c \in Causes : Delivered(s, "error", c) # {}) =>
            /\ sessions[s].pc = "failed"
            /\ ~LiveHandle(s)

\* The messages equal to the probe identifier that were delivered to session
\* s before its close signal
MatchesBeforeClose(s) ==
    CopiesIn(Signal("message", ProbeId), sessions[s].delivered)
        - CopiesIn(Signal("message", ProbeId), sessions[s].late)

\* C15, as stated: a message delivered to a session after its close signal
\* changes no metric and sends nothing: the samples, gauge updates and counter
\* increments of a session are those of the matching messages delivered
\* before close, and the payloads sent are those sent before close.
C15_MessageAfterCloseRejected ==
    \A s \in SessionIds :
        /\ Len(trendSink[s]) = MatchesBeforeClose(s)
        /\ Len(gaugeSink[s]) = MatchesBeforeClose(s)
        /\ Len(counterSink[s]) = MatchesBeforeClose(s)
        /\ Len(sessions[s].sent) <= 1

\* C16: a session calls ws.connect at most once: not before its timer fired,
\* once from then on, and never again after a refused handshake or after an
\* error or close signal; it holds a connection only between that one call
\* and its return.
C16_AtMostOneConnect ==
    \A s \in SessionIds :
        /\ sessions[s].connects <= 1
        /\ sessions[s].connects = 0 <=> sessions[s].pc \in {"idle", "armed"}
        /\ LiveHandle(s) => sessions[s].connects = 1 /\ sessions[s].res = Undefined
        /\ sessions[s].res # Undefined => sessions[s].pc \in Terminal

\* C16, witness: one session was refused and another was closed after an
\* error, each with its one call of ws.connect
C16_Witness ==
    \E s, p \in SessionIds :
        /\ sessions[s].pc = "failed" /\ sessions[s].connects = 1
        /\ sessions[p].pc = "closed" /\ sessions[p].connects = 1
        /\ \E c \in Causes : Delivered(p, "error", c) # {}

\* onConnect has run for the session: its recorder exists and its four
\* handlers are registered
HandlersRegistered(s) == sessions[s].trend # Undefined

FailedCheck == [name |-> "Connected successfully", pass |-> FALSE]

Refused(s) == sessions[s].res # Undefined /\ sessions[s].res.status # 101

\* C17, as stated: a session whose handshake result is not 101 has a failed
\* check recorded, and its handlers are registered and go on reacting to
\* signals as after a successful handshake.
C17_RefusedSessionKeepsReacting ==
    \A s \in SessionIds :
        Refused(s) =>
            /\ CopiesIn(FailedCheck, checks) >= 1
            /\ HandlersRegistered(s)
            /\ ENABLED on_open(s)

\* C17, amended: a handshake result that is not 101 is recorded as one failed
\* check and nothing else (no log record, no metric, no clock reading); the
\* session has ended by then with no handler registered, so no signal is
\* delivered to it and it sends nothing.
C17_RefusalIsFailedCheckOnly ==
    /\ [](/\ CopiesIn(FailedCheck, checks)
                = Cardinality({s \in SessionIds : Refused(s)})
          /\ \A s \in SessionIds :
                Refused(s) =>
                    /\ sessions[s].pc = "failed"
                    /\ ~HandlersRegistered(s)
                    /\ sessions[s].delivered = EmptyBag
                    /\ sessions[s].sent = <<>>
                    /\ trendSink[s] = <<>> /\ gaugeSink[s] = <<>>
                    /\ counterSink[s] = <<>>)
    /\ [][\A s \in SessionIds :
             (~Refused(s) /\ Refused(s)') =>
                 /\ checks' = checks (+) SetToBag({FailedCheck})
                 /\ UNCHANGED <<console, now, trendSink, gaugeSink, counterSink>>
         ]_vars

\* C17, witness: one session was refused and has its failed check, another
\* went through open and close and has its passing check
C17_Witness ==
    \E s, p \in SessionIds :
        /\ Refused(s)
        /\ sessions[p].pc = "closed" /\ Delivered(p, "open", "") # {}
        /\ CopiesIn(FailedCheck, checks) = 1
        /\ BagCardinality(checks) = 2

StartLog(s) ==
    [kind |-> "START TIME", vu |-> sessions[s].vu, timeout |-> sessions[s].timeout,
     idInTest |-> sessions[s].vu, iterationInScenario |-> sessions[s].iter]

\* C18: the entry point only computes the delay, logs it and arms the timer:
\* the step that takes a session out of idle leaves it armed, with its delay
\* and with no call of ws.connect made.  ws.connect is called only by the step
\* of an armed session, its timer firing, and a session that has left armed
\* has made exactly one call.
C18_ConnectOnlyWhenTimerFires ==
    /\ [](\A s \in SessionIds :
             /\ sessions[s].pc = "armed" =>
                    /\ sessions[s].connects = 0
                    /\ sessions[s].timeout =
                           timeout(sessions[s].vu, sessions[s].iter)
                    /\ CopiesIn(StartLog(s), console) >= 1
             /\ sessions[s].pc \notin {"idle", "armed"} =>
                    sessions[s].connects = 1)
    /\ [][\A s \in SessionIds :
             /\ (sessions[s].pc = "idle" /\ sessions'[s].pc # "idle") =>
                    sessions'[s].pc = "armed"
             /\ sessions'[s].connects # sessions[s].connects =>
                    /\ sessions[s].pc = "armed"
                    /\ sessions'[s].pc \in {"registered", "failed"}
                    /\ sessions'[s].connects = sessions[s].connects + 1
         ]_vars

\* C18, witness: a session whose timer has fired is open while another
\* session, invoked after it, is armed and has not called ws.connect
C18_Witness ==
    \E s, p \in SessionIds :
        /\ sessions[s].pc = "open" /\ sessions[s].connects = 1
        /\ sessions[s].timeout = 1000
        /\ sessions[p].pc = "armed" /\ sessions[p].connects = 0
        /\ sessions[p].timeout = 2000

\* The error signals with a cause that is reported, delivered to session s
ReportedErrors(s) ==
    CountTypes(sessions[s].delivered, {"error"})
        - CopiesIn(Signal("error", BenignError), sessions[s].delivered)

\* C19: a session to which no message equal to the probe identifier has been
\* delivered has not invoked end() on its recorder and has given no sample, no
\* gauge update and no counter increment; and a VU whose sessions got neither
\* such a message nor an error signal with a reported cause has no error
\* report on the console.
C19_NoEchoNoMetric ==
    /\ \A s \in SessionIds :
           Delivered(s, "message", ProbeId) = {} =>
               /\ trendSink[s] = <<>>
               /\ gaugeSink[s] = <<>>
               /\ counterSink[s] = <<>>
               /\ HandlersRegistered(s) =>
                      sessions[s].trend.endedTime = Undefined
    /\ \A v \in VUs :
           (\A s \in SessionIds :
                sessions[s].vu = v =>
                    /\ Delivered(s, "message", ProbeId) = {}
                    /\ ReportedErrors(s) = 0)
           => \A r \in BagToSet(console) : ~(r.kind = "error" /\ r.vu = v)

\* C19, witness: a session has sent its probe, got a message that is not the
\* probe identifier and was closed, with no metric given
C19_Witness ==
    \E s \in SessionIds :
        /\ sessions[s].pc = "closed"
        /\ sessions[s].sent = <<ProbeId>>
        /\ Delivered(s, "message", ProbeId) = {}
        /\ Cardinality(Messages(s)) >= 1
        /\ trendSink[s] = <<>> /\ gaugeSink[s] = <<>> /\ counterSink[s] = <<>>

\* C20: a step changes the state of at most one session, and the metric
\* values of a session change only in a step of that session: whatever
\* signal one session handles, every other session keeps its state, its
\* recorder and its metric values.
C20_SessionsAreIsolated ==
    [][\A s, p \in SessionIds :
          s # p =>
              /\ sessions'[s] # sessions[s] => sessions'[p] = sessions[p]
              /\ (\/ trendSink'[s] # trendSink[s]
                  \/ gaugeSink'[s] # gaugeSink[s]
                  \/ counterSink'[s] # counterSink[s]) =>
                     /\ sessions'[s] # sessions[s]
                     /\ trendSink'[p] = trendSink[p]
                     /\ gaugeSink'[p] = gaugeSink[p]
                     /\ counterSink'[p] = counterSink[p]
      ]_vars

\* C20, witness: of two sessions that were open at the same time, one has
\* handled an error and its close signal, and the other is still open with
\* nothing but its open signal handled
C20_Witness ==
    \E s, p \in SessionIds :
        /\ sessions[s].vu # sessions[p].vu
        /\ sessions[s].pc = "sleeping"
        /\ \E c \in Causes : Delivered(s, "error", c) # {}
        /\ sessions[p].pc = "open"
        /\ BagCardinality(sessions[p].delivered) = 1

====
